---- MODULE Spec2Model ----
(***************************************************************************)
(* Model of the authentication pipeline of the acquisitions API:           *)
(*   src/validations/auth.validation.js   signupSchema, signinSchema       *)
(*   src/middleware/security.middleware.js securityMiddleware,             *)
(*                                         hashPassword, comparePassword,  *)
(*                                         createUser, authenticateUser    *)
(*   src/utils/jwt.js                      jwttoken.sign, jwttoken.verify  *)
(* Text values (emails, passwords, names, messages) are sequences of       *)
(* string fragments; a character is a fragment of length one.              *)
(***************************************************************************)
EXTENDS Integers, Sequences, FiniteSets, TLC

VARIABLES
    users,      \* the users table: a set of rows
    nextId,     \* the serial sequence behind users.id
    nextSalt,   \* source of fresh bcrypt salts
    pc,         \* per request: where its handler is suspended
    req,        \* per request: the raw request body
    args,       \* per request: the arguments passed to the service function
    local,      \* per request: values the service function holds across an await
    ret,        \* per request: what the service function returned or threw
    resp,       \* per request: the HTTP response of the controller
    cause,      \* per request: which internal event ended the service call
    after,      \* per request: the requests that had succeeded when it started
    log,        \* the events handed to the logger
    clock,      \* the server's clock, in whole seconds
    ticks,      \* how many times the clock has advanced
    secret,     \* JWT_SECRET, fixed when the module is loaded
    issued,     \* tokens produced by jwttoken.sign
    wire,       \* tokens a client may present (issued, altered or forged)
    verdict,    \* the outcome of the last jwttoken.verify call
    route,      \* per request: the route it was sent to
    jar,        \* per request: the token cookie its client holds
    mw          \* per request: its passage through securityMiddleware

vars == <<users, nextId, nextSalt, pc, req, args, local, ret, resp, cause,
          after, log, clock, ticks, secret, issued, wire, verdict,
          route, jar, mw>>

svcVars == <<users, nextId, nextSalt, pc, req, args, local, ret, resp, cause, after>>
jwtVars == <<clock, ticks, secret, issued, wire, verdict>>
webVars == <<route, jar>>

-----------------------------------------------------------------------------
(* Bounds of the model *)

NumProcs == 2
MaxTicks == 2

Procs == 1..NumProcs

-----------------------------------------------------------------------------
(* Text *)

Space == " "
UpperToLower == [c \in {"F", "B"} |-> IF c = "F" THEN "f" ELSE "b"]
Letters == {"F", "B", "f", "b", "x", "i", "o", "A"}

\* String.prototype.toLowerCase, character by character
ToLowerCase(s) ==
    [i \in DOMAIN s |-> IF s[i] \in DOMAIN UpperToLower THEN UpperToLower[s[i]] ELSE s[i]]

RECURSIVE TrimStart(_)
TrimStart(s) ==
    IF s # <<>> /\ Head(s) = Space THEN TrimStart(Tail(s)) ELSE s

RECURSIVE TrimEnd(_)
TrimEnd(s) ==
    IF s # <<>> /\ s[Len(s)] = Space THEN TrimEnd(SubSeq(s, 1, Len(s) - 1)) ELSE s

\* String.prototype.trim
Trim(s) == TrimEnd(TrimStart(s))

\* needle occurs in hay as a contiguous run of fragments
Contains(hay, needle) ==
    \E i \in 0..(Len(hay) - Len(needle)) :
        SubSeq(hay, i + 1, i + Len(needle)) = needle

-----------------------------------------------------------------------------
(* Input validation: src/validations/auth.validation.js *)

NameMax == 255
EmailMax == 255
PasswordMin == 6
PasswordMax == 128
SigninPasswordMin == 1

Roles == {"user", "admin"}

\* z.email(): local part, "@", dot-separated domain labels, a top-level label
\* of at least two letters; no whitespace anywhere.
IsEmail(s) ==
    \E k \in 2..(Len(s) - 1) :
        /\ s[k] = "@"
        /\ \A i \in 1..(k - 1) : s[i] \in Letters
        /\ \A i \in (k + 1)..Len(s) : s[i] \in Letters \cup {"."}
        /\ s[k + 1] # "."
        /\ \A i \in (k + 1)..(Len(s) - 1) : ~(s[i] = "." /\ s[i + 1] = ".")
        /\ \E d \in (k + 2)..(Len(s) - 2) :
              /\ s[d] = "."
              /\ \A i \in (d + 1)..Len(s) : s[i] \in Letters

Has(body, f) == f \in DOMAIN body

\* name: z.string().max(255).trim()
NameOk(body) == Has(body, "name") /\ Len(body.name) <= NameMax
NameOut(body) == Trim(body.name)

\* email: z.email().toLowerCase().max(255).trim()
SignupEmailOk(body) ==
    Has(body, "email") /\ IsEmail(body.email) /\ Len(ToLowerCase(body.email)) <= EmailMax
SignupEmailOut_caseKept(body) == Trim(body.email)
SignupEmailOut(body) == Trim(ToLowerCase(body.email))

\* password: z.string().min(6).max(128)
SignupPasswordOk(body) ==
    Has(body, "password") /\ Len(body.password) >= PasswordMin
                          /\ Len(body.password) <= PasswordMax

\* role: z.enum(['user', 'admin']).default('user')
RoleOk(body) == Has(body, "role") => body.role \in Roles
RoleOut_adminDefault(body) == IF Has(body, "role") THEN body.role ELSE "admin"
RoleOut(body) == IF Has(body, "role") THEN body.role ELSE "user"

NoData == [none |-> TRUE]

signupSchema_nameOptional(body) ==
    IF /\ Has(body, "name") => Len(body.name) <= NameMax
       /\ SignupEmailOk(body) /\ SignupPasswordOk(body) /\ RoleOk(body)
    THEN [success |-> TRUE,
          data |-> [name |-> IF Has(body, "name") THEN NameOut(body) ELSE <<>>,
                    email |-> SignupEmailOut(body),
                    password |-> body.password, role |-> RoleOut(body)]]
    ELSE [success |-> FALSE, data |-> NoData]

\* signupSchema.safeParse(body)
signupSchema(body) ==
    IF NameOk(body) /\ SignupEmailOk(body) /\ SignupPasswordOk(body) /\ RoleOk(body)
    THEN [success |-> TRUE,
          data |-> [name |-> NameOut(body), email |-> SignupEmailOut(body),
                    password |-> body.password, role |-> RoleOut(body)]]
    ELSE [success |-> FALSE, data |-> NoData]

signinSchema_caseKept(body) ==
    IF /\ Has(body, "email") /\ IsEmail(body.email)
       /\ Has(body, "password") /\ Len(body.password) >= SigninPasswordMin
    THEN [success |-> TRUE,
          data |-> [email |-> Trim(body.email), password |-> body.password]]
    ELSE [success |-> FALSE, data |-> NoData]

\* signinSchema.safeParse(body)
signinSchema(body) ==
    IF /\ Has(body, "email") /\ IsEmail(body.email)
       /\ Has(body, "password") /\ Len(body.password) >= SigninPasswordMin
    THEN [success |-> TRUE,
          data |-> [email |-> Trim(ToLowerCase(body.email)), password |-> body.password]]
    ELSE [success |-> FALSE, data |-> NoData]

-----------------------------------------------------------------------------
(* Outcomes of a call, and log events *)

Return(v) == [ok |-> TRUE, value |-> v, message |-> <<>>]
Throw(m) == [ok |-> FALSE, value |-> NoData, message |-> m]
NotCalled == [ok |-> FALSE, value |-> NoData, message |-> <<"(not called)">>]

\* logger.error(text, e) and logger.info(text)
LogError(text, e) == [level |-> "error", text |-> text, err |-> e]
LogInfo(text) == [level |-> "info", text |-> text, err |-> <<>>]
LogWarn(text) == [level |-> "warn", text |-> text, err |-> <<>>]

\* everything an event hands to the logger, as one text
EventText(ev) == ev.text \o ev.err

-----------------------------------------------------------------------------
(* bcryptjs, as used by hashPassword and comparePassword *)

SaltRounds == 10

\* the texts the requests of this model carry as passwords
Secret1 == <<"s", "e", "c", "r", "e", "t", "1">>
Secret2 == <<"h", "u", "n", "t", "e", "r", "2">>
Wrong == <<"w", "r", "o", "n", "g", "!">>
Short == <<"p", "w">>

\* the salts bcrypt draws, in the order it draws them
SaltText == <<"salt.a", "salt.b", "salt.c", "salt.d", "salt.e", "salt.f">>

\* the one-way part of bcrypt: a text that names the password without
\* containing it (passwords here are shorter than bcrypt's 72-byte cut)
Blowfish(password) ==
    CASE password = Secret1 -> "digest.1"
      [] password = Secret2 -> "digest.2"
      [] password = Wrong -> "digest.3"
      [] password = Short -> "digest.4"
      [] OTHER -> "digest.0"

BcryptPrefix(cost) == IF cost = SaltRounds THEN "$2b$10$" ELSE "$2b$??$"

\* bcrypt.hash with a given salt: prefix with the cost, the salt, the hash
BcryptDigest(password, salt, cost) ==
    <<BcryptPrefix(cost), SaltText[salt], Blowfish(password)>>

IsDigest(x) == Len(x) = 3 /\ x[1] = BcryptPrefix(SaltRounds)

\* bcrypt.compare: re-hash the candidate with the digest's own salt and cost
BcryptCompare(password, hashed) ==
    IsDigest(hashed) /\ hashed = <<hashed[1], hashed[2], Blowfish(password)>>

HashingFailedMsg == <<"Password hashing failed">>
BcryptErrorMsg == <<"bcrypt: random source unavailable">>

hashPassword_fixedSalt(password, salt, failed) ==
    IF failed
    THEN [out |-> Throw(HashingFailedMsg),
          events |-> {LogError(<<"Error hashing password:">>, BcryptErrorMsg)}]
    ELSE [out |-> Return(BcryptDigest(password, 1, SaltRounds)), events |-> {}]

\* hashPassword(password); salt is the fresh salt bcrypt draws, failed says
\* whether bcrypt.hash rejected
hashPassword(password, salt, failed) ==
    IF failed
    THEN [out |-> Throw(HashingFailedMsg),
          events |-> {LogError(<<"Error hashing password:">>, BcryptErrorMsg)}]
    ELSE [out |-> Return(BcryptDigest(password, salt, SaltRounds)), events |-> {}]

\* comparePassword(password, hashedPassword); bcrypt.compare does not reject
\* when both arguments are strings, so the catch branch is not taken
comparePassword(password, hashedPassword) ==
    [out |-> Return(BcryptCompare(password, hashedPassword)), events |-> {}]

-----------------------------------------------------------------------------
(* jsonwebtoken, and src/utils/jwt.js *)

ExpiresInSeconds == 86400

DefaultSecret == "your-default-secret-key-please-change-in-production"
EnvSecret == "secret-from-process-env"
OtherSecret == "secret-of-another-party"

\* const JWT_SECRET = process.env.JWT_SECRET || '<default>'
JWT_SECRET(env) == IF env # "" THEN env ELSE DefaultSecret

\* HMAC-SHA256 of the token's payload under key
Hmac(key, data) == [key |-> key, data |-> data]

\* jwt.sign(payload, key, { expiresIn: '1d' }) at time now
jwtSign(payload, key, now) ==
    LET full == [id |-> payload.id, email |-> payload.email, role |-> payload.role,
                 iat |-> now, exp |-> now + ExpiresInSeconds]
    IN  [payload |-> full, signature |-> Hmac(key, full)]

\* jwt.verify(token, key) at time now: signature first, then expiry
jwtVerify(token, key, now) ==
    IF token.signature # Hmac(key, token.payload)
    THEN Throw(<<"JsonWebTokenError: invalid signature">>)
    ELSE IF now >= token.payload.exp
         THEN Throw(<<"TokenExpiredError: jwt expired">>)
         ELSE Return(token.payload)

InvalidJwtMsg == <<"Invalid or expired JWT">>

SignFailedMsg == <<"Could not sign JWT">>
JwtSignErrorMsg == <<"Error: jwt.sign failed">>

\* jwttoken.sign(payload); failed: jwt.sign throws
jwttoken_sign(payload, key, now, failed) ==
    IF failed
    THEN [out |-> Throw(SignFailedMsg),
          events |-> {LogError(<<"Error signing JWT:">>, JwtSignErrorMsg)}]
    ELSE [out |-> Return(jwtSign(payload, key, now)), events |-> {}]

jwttoken_verify_decodeOnly(token, key, now) ==
    [out |-> Return(token.payload), events |-> {}]

jwttoken_verify_rethrow(token, key, now) ==
    LET r == jwtVerify(token, key, now)
    IN  IF r.ok THEN [out |-> r, events |-> {}]
        ELSE [out |-> r, events |-> {LogError(<<"Error verifying JWT:">>, r.message)}]

jwttoken_verify_revocable(token, key, now) ==
    IF jwtVerify(token, key, now).ok /\ \E p \in DOMAIN jar : jar[p] = token
    THEN [out |-> jwtVerify(token, key, now), events |-> {}]
    ELSE [out |-> Throw(InvalidJwtMsg),
          events |-> {LogError(<<"Error verifying JWT:">>, <<"revoked">>)}]

\* jwttoken.verify(token)
jwttoken_verify(token, key, now) ==
    LET r == jwtVerify(token, key, now)
    IN  IF r.ok THEN [out |-> r, events |-> {}]
        ELSE [out |-> Throw(InvalidJwtMsg),
              events |-> {LogError(<<"Error verifying JWT:">>, r.message)}]

\* the claims the controllers sign for a user
TokenClaims(user) == [id |-> user.id, email |-> user.email, role |-> user.role]

-----------------------------------------------------------------------------
(* The users table, reached through drizzle *)

\* db.select().from(users).where(eq(users.email, email)).limit(1)
SelectByEmail(rows, email) == {r \in rows : r.email = email}

\* the unique constraint on users.email
UniqueViolation_absent(rows, email) == FALSE
UniqueViolation(rows, email) == \E r \in rows : r.email = email

UniqueViolationMsg == <<"duplicate key value violates unique constraint users_email_unique">>
StoreErrorMsg == <<"store: connection failed">>

\* the row the table stores for the inserted values
InsertedRow(values, id, now) ==
    [id |-> id, name |-> values.name, email |-> values.email,
     password |-> values.password, role |-> values.role,
     created_at |-> now, updated_at |-> now]

-----------------------------------------------------------------------------
(* createUser and authenticateUser: src/middleware/security.middleware.js *)

AlreadyExistsMsg == <<"User with this email already exists">>
InvalidCredentialsMsg == <<"Invalid email or password">>

\* .values({ name, email, password: password_hash, role })
CreateUserValues_plaintext(a, password_hash) ==
    [name |-> a.name, email |-> a.email, password |-> a.password, role |-> a.role]
CreateUserValues(a, password_hash) ==
    [name |-> a.name, email |-> a.email, password |-> password_hash, role |-> a.role]

\* .returning({ id, name, email, role, created_at })
Returning_allColumns(row) == row
Returning(row) ==
    [id |-> row.id, name |-> row.name, email |-> row.email, role |-> row.role,
     created_at |-> row.created_at]

\* the catch block of createUser, given the message of the caught error
CreateUserCatch(message) ==
    [out |-> IF message = AlreadyExistsMsg
             THEN Throw(message)
             ELSE Throw(<<"User creation failed: ">> \o message),
     events |-> {LogError(<<"Error creating user:">>, message)}]

\* logger.info(`Created new user: ${email} with role: ${role}`)
CreatedEvent(a) ==
    LogInfo(<<"Created new user: ">> \o a.email \o <<" with role: ", a.role>>)

\* the catch block of authenticateUser: log and rethrow
AuthCatch(message) ==
    [out |-> Throw(message),
     events |-> {LogError(<<"Error authenticating user:">>, message)}]

\* if (!user) throw ...
AuthNoUser_distinct == AuthCatch(<<"No user with this email">>)
AuthNoUser == AuthCatch(InvalidCredentialsMsg)

\* if (!isMatch) throw ...
AuthMismatch == AuthCatch(InvalidCredentialsMsg)

\* return user, after logger.info(`Authenticated user: ${email}`)
AuthSuccess(user, email) ==
    [out |-> Return(user), events |-> {LogInfo(<<"Authenticated user: ">> \o email)}]

\* authenticateUser after its lookup found user
AuthCheck(user, a) ==
    IF comparePassword(a.password, user.password).out.value
    THEN AuthSuccess(user, a.email)
    ELSE AuthMismatch

\* authenticateUser({ email, password }) against rows, when the lookup is
\* answered: one result per row the lookup may return
authenticateUser(rows, a) ==
    IF SelectByEmail(rows, a.email) = {}
    THEN {AuthNoUser}
    ELSE {AuthCheck(user, a) : user \in SelectByEmail(rows, a.email)}

-----------------------------------------------------------------------------
(* The controllers: the signup controller as src/unnamed/part_000 describes *)
(* it, the sign-in controller as the mirror of it                          *)

NoToken == [none |-> TRUE]

\* what the client receives, and the error passed to next(e) if any
Response(status, user, token, error) ==
    [status |-> status, user |-> user, token |-> token, error |-> error]
NoResponse == Response(0, NoData, NoToken, <<>>)

\* the controller's call of jwttoken.sign, made once the service has returned
ControllerSign(out, key, now, signFailed) ==
    IF out.ok
    THEN jwttoken_sign(TokenClaims(out.value), key, now, signFailed)
    ELSE [out |-> NotCalled, events |-> {}]

\* signup: 201 with a minimal user object and the token cookie; 409 when the
\* service threw "already exists"; otherwise next(e), which answers 500
SignupResponse(out, key, now, signFailed) ==
    IF out.ok
    THEN IF ControllerSign(out, key, now, signFailed).out.ok
         THEN Response(201,
                       [id |-> out.value.id, name |-> out.value.name,
                        email |-> out.value.email, role |-> out.value.role],
                       ControllerSign(out, key, now, signFailed).out.value, <<>>)
         ELSE Response(500, NoData, NoToken,
                       ControllerSign(out, key, now, signFailed).out.message)
    ELSE IF out.message = AlreadyExistsMsg
         THEN Response(409, NoData, NoToken, <<>>)
         ELSE Response(500, NoData, NoToken, out.message)

\* sign-in: 200 with the user object and the token cookie; 401 on invalid
\* credentials; otherwise 500
SigninResponse(out, key, now, signFailed) ==
    IF out.ok
    THEN IF ControllerSign(out, key, now, signFailed).out.ok
         THEN Response(200,
                       [id |-> out.value.id, name |-> out.value.name,
                        email |-> out.value.email, role |-> out.value.role],
                       ControllerSign(out, key, now, signFailed).out.value, <<>>)
         ELSE Response(500, NoData, NoToken,
                       ControllerSign(out, key, now, signFailed).out.message)
    ELSE IF out.message = InvalidCredentialsMsg
         THEN Response(401, NoData, NoToken, <<>>)
         ELSE Response(500, NoData, NoToken, out.message)

ValidationResponse == Response(400, NoData, NoToken, <<>>)

-----------------------------------------------------------------------------
(* securityMiddleware: src/middleware/security.middleware.js *)

\* the kinds of reason a decision of aj.protect carries
Reasons == {"BOT", "SHIELD", "RATE_LIMIT", "EMAIL", "SENSITIVE_INFO", "NONE"}

\* what aj.protect(req) may settle to: a rejection, or a decision
Decisions ==
    {[threw |-> TRUE, denied |-> FALSE, reason |-> "NONE"]}
    \cup [threw : {FALSE}, denied : BOOLEAN, reason : Reasons]
NoDecision == [none |-> TRUE]

\* decision.isDenied(), decision.reason.isBot(), .isShield(), .isRateLimit()
isDenied(decision) == decision.denied
isBot(reason) == reason = "BOT"
isShield(reason) == reason = "SHIELD"
isRateLimit(reason) == reason = "RATE_LIMIT"

\* res.status(status).json({ error, message })
Json(status, error, message) == [status |-> status, error |-> error, message |-> message]

ArcjetErrorMsg == <<"arcjet: protect failed">>

\* what one run of the middleware did: the responses it sent, in order, how
\* often it called next(), and what it logged
MwRun(responses, nextCalls, events) ==
    [responses |-> responses, nextCalls |-> nextCalls, events |-> events]

securityMiddleware_noReturn(decision) ==
    IF decision.threw
    THEN MwRun(<<Json(500, "Internal Server Error", "something went wrong with arcjet")>>,
               0, {LogError(<<"Arcjet middleware error:">>, ArcjetErrorMsg)})
    ELSE IF isDenied(decision) /\ isBot(decision.reason)
    THEN MwRun(<<Json(403, "Forbidden", "Bot traffic is not allowed")>>,
               0, {LogWarn(<<"Bot detected:">>)})
    ELSE IF isDenied(decision) /\ isShield(decision.reason)
    THEN MwRun(<<Json(403, "Forbidden", "Request Blocked BY SECURITY POLICY")>>,
               0, {LogWarn(<<"Shield Request detected:">>)})
    ELSE IF isDenied(decision) /\ isRateLimit(decision.reason)
    THEN MwRun(<<Json(429, "Too Many Requests", "Rate limit exceeded")>>,
               1, {LogWarn(<<"Rate Limit Exceeded:">>)})
    ELSE MwRun(<<>>, 1, {})

\* securityMiddleware(req, res, next), once aj.protect(req) has settled
securityMiddleware(decision) ==
    IF decision.threw
    THEN MwRun(<<Json(500, "Internal Server Error", "something went wrong with arcjet")>>,
               0, {LogError(<<"Arcjet middleware error:">>, ArcjetErrorMsg)})
    ELSE IF isDenied(decision) /\ isBot(decision.reason)
    THEN MwRun(<<Json(403, "Forbidden", "Bot traffic is not allowed")>>,
               0, {LogWarn(<<"Bot detected:">>)})
    ELSE IF isDenied(decision) /\ isShield(decision.reason)
    THEN MwRun(<<Json(403, "Forbidden", "Request Blocked BY SECURITY POLICY")>>,
               0, {LogWarn(<<"Shield Request detected:">>)})
    ELSE IF isDenied(decision) /\ isRateLimit(decision.reason)
    THEN MwRun(<<Json(429, "Too Many Requests", "Rate limit exceeded")>>,
               0, {LogWarn(<<"Rate Limit Exceeded:">>)})
    ELSE MwRun(<<>>, 1, {})

NotEntered ==
    [pc |-> "idle", decision |-> NoDecision, responses |-> <<>>, nextCalls |-> 0]

-----------------------------------------------------------------------------
(* The requests of the model *)

FooUpper == <<"F", "@", "x", ".", "i", "o">>
FooLower == <<"f", "@", "x", ".", "i", "o">>
Bar == <<"b", "@", "x", ".", "i", "o">>
NotAnEmail == <<"f", " ", "x">>

SignupBodies ==
    { [name |-> <<"A">>, email |-> FooUpper, password |-> Secret1],
      [name |-> <<" ", "A">>, email |-> FooLower, password |-> Secret2, role |-> "admin"],
      [name |-> <<"B">>, email |-> Bar, password |-> Secret1, role |-> "user"],
      [email |-> Bar, password |-> Secret2],
      [name |-> <<"B">>, email |-> NotAnEmail, password |-> Short],
      [name |-> <<"B">>, email |-> Bar, password |-> Secret1, role |-> "root"] }

SigninBodies ==
    { [email |-> FooUpper, password |-> Secret1],
      [email |-> FooLower, password |-> Wrong],
      [email |-> Bar, password |-> Secret1],
      [email |-> NotAnEmail, password |-> Secret1] }

NoArgs == [none |-> TRUE]
NoLocal == [password_hash |-> <<>>, user |-> NoData]

-----------------------------------------------------------------------------
(* Initial state *)

InitService ==
    /\ users = {}
    /\ nextId = 1
    /\ nextSalt = 1
    /\ pc = [p \in Procs |-> "idle"]
    /\ req = [p \in Procs |-> NoArgs]
    /\ args = [p \in Procs |-> NoArgs]
    /\ local = [p \in Procs |-> NoLocal]
    /\ ret = [p \in Procs |-> NotCalled]
    /\ resp = [p \in Procs |-> NoResponse]
    /\ cause = [p \in Procs |-> "none"]
    /\ after = [p \in Procs |-> {}]
    /\ log = {}
    /\ route = [p \in Procs |-> "none"]
    /\ jar = [p \in Procs |-> NoToken]
    /\ mw = [p \in Procs |-> NotEntered]

InitJwt ==
    /\ clock = 0
    /\ ticks = 0
    /\ issued = {}
    /\ wire = {}
    /\ verdict = NotCalled

Init ==
    /\ InitService
    /\ InitJwt
    /\ secret \in {JWT_SECRET(EnvSecret), JWT_SECRET("")}

-----------------------------------------------------------------------------
(* Steps of a request.  A step runs from one await to the next: the awaited *)
(* operation takes effect and the handler continues to its next await.      *)

\* the service call of request p ends with result r (its outcome and events)
\* and the controller answers; sign is the controller's jwttoken.sign call
EndCall(p, r, why, sign, response) ==
    /\ pc' = [pc EXCEPT ![p] = "done"]
    /\ ret' = [ret EXCEPT ![p] = r.out]
    /\ resp' = [resp EXCEPT ![p] = response]
    /\ cause' = [cause EXCEPT ![p] = IF r.out.ok /\ ~sign.out.ok
                                     THEN "sign_failure" ELSE why]
    /\ log' = log \cup r.events \cup sign.events
    /\ jar' = IF response.token # NoToken
              THEN [jar EXCEPT ![p] = response.token]
              ELSE jar

EndSignup(p, r, why, signFailed) ==
    EndCall(p, r, why, ControllerSign(r.out, secret, clock, signFailed),
            SignupResponse(r.out, secret, clock, signFailed))
EndSignin(p, r, why, signFailed) ==
    EndCall(p, r, why, ControllerSign(r.out, secret, clock, signFailed),
            SigninResponse(r.out, secret, clock, signFailed))

Succeeded == {q \in Procs : pc[q] = "done" /\ ret[q].ok}

\* POST /sign-up: validate, then call createUser, which issues its lookup
Signup(p) ==
    /\ pc[p] = "idle"
    /\ \E body \in SignupBodies :
        /\ req' = [req EXCEPT ![p] = body]
        /\ route' = [route EXCEPT ![p] = "/sign-up"]
        /\ after' = [after EXCEPT ![p] = Succeeded]
        /\ IF signupSchema(body).success
           THEN /\ args' = [args EXCEPT ![p] = signupSchema(body).data]
                /\ pc' = [pc EXCEPT ![p] = "createUser.select"]
                /\ UNCHANGED <<resp, cause>>
           ELSE /\ pc' = [pc EXCEPT ![p] = "done"]
                /\ resp' = [resp EXCEPT ![p] = ValidationResponse]
                /\ cause' = [cause EXCEPT ![p] = "invalid"]
                /\ UNCHANGED args
    /\ UNCHANGED <<users, nextId, nextSalt, local, ret, log, jar>>
    /\ UNCHANGED <<jwtVars, mw>>

\* createUser: the lookup is answered
CreateUserSelect(p) ==
    /\ pc[p] = "createUser.select"
    /\ \E failed \in BOOLEAN :
        IF failed
        THEN EndSignup(p, CreateUserCatch(StoreErrorMsg), "store_failure", FALSE)
        ELSE IF SelectByEmail(users, args[p].email) # {}
             THEN EndSignup(p, CreateUserCatch(AlreadyExistsMsg), "exists", FALSE)
             ELSE /\ pc' = [pc EXCEPT ![p] = "createUser.hash"]
                  /\ UNCHANGED <<ret, resp, cause, log, jar>>
    /\ UNCHANGED <<users, nextId, nextSalt, req, args, local, after, route>>
    /\ UNCHANGED <<jwtVars, mw>>

\* createUser: hashPassword settles
CreateUserHash(p) ==
    /\ pc[p] = "createUser.hash"
    /\ \E failed \in BOOLEAN :
        LET h == hashPassword(args[p].password, nextSalt, failed)
        IN  IF h.out.ok
            THEN /\ local' = [local EXCEPT ![p].password_hash = h.out.value]
                 /\ pc' = [pc EXCEPT ![p] = "createUser.insert"]
                 /\ nextSalt' = nextSalt + 1
                 /\ log' = log \cup h.events
                 /\ UNCHANGED <<ret, resp, cause, jar>>
            ELSE /\ EndSignup(p, [out |-> CreateUserCatch(h.out.message).out,
                                  events |-> h.events \cup
                                             CreateUserCatch(h.out.message).events],
                              "hash_failure", FALSE)
                 /\ UNCHANGED <<local, nextSalt>>
    /\ UNCHANGED <<users, nextId, req, args, after, route>>
    /\ UNCHANGED <<jwtVars, mw>>

CreateUserInsert_waits(p) ==
    /\ pc[p] = "createUser.insert"
    /\ \A q \in Procs \ {p} :
          ~(pc[q] = "createUser.insert" /\ args[q].email = args[p].email)
    /\ \E failed \in BOOLEAN :
        LET values == CreateUserValues(args[p], local[p].password_hash)
            row == InsertedRow(values, nextId, clock)
        IN  IF failed
            THEN /\ EndSignup(p, CreateUserCatch(StoreErrorMsg), "store_failure", FALSE)
                 /\ UNCHANGED <<users, nextId>>
            ELSE IF UniqueViolation(users, values.email)
                 THEN /\ EndSignup(p, CreateUserCatch(UniqueViolationMsg),
                                   "unique_violation", FALSE)
                      /\ nextId' = nextId + 1
                      /\ UNCHANGED users
                 ELSE /\ users' = users \cup {row}
                      /\ nextId' = nextId + 1
                      /\ \E signFailed \in BOOLEAN :
                            EndSignup(p, [out |-> Return(Returning(row)),
                                          events |-> {CreatedEvent(args[p])}],
                                      "created", signFailed)
    /\ UNCHANGED <<nextSalt, req, args, local, after, route>>
    /\ UNCHANGED <<jwtVars, mw>>

\* createUser: the insert is answered
CreateUserInsert(p) ==
    /\ pc[p] = "createUser.insert"
    /\ \E failed \in BOOLEAN :
        LET values == CreateUserValues(args[p], local[p].password_hash)
            row == InsertedRow(values, nextId, clock)
        IN  IF failed
            THEN /\ EndSignup(p, CreateUserCatch(StoreErrorMsg), "store_failure", FALSE)
                 /\ UNCHANGED <<users, nextId>>
            ELSE IF UniqueViolation(users, values.email)
                 THEN /\ EndSignup(p, CreateUserCatch(UniqueViolationMsg),
                                   "unique_violation", FALSE)
                      /\ nextId' = nextId + 1
                      /\ UNCHANGED users
                 ELSE /\ users' = users \cup {row}
                      /\ nextId' = nextId + 1
                      /\ \E signFailed \in BOOLEAN :
                            EndSignup(p, [out |-> Return(Returning(row)),
                                          events |-> {CreatedEvent(args[p])}],
                                      "created", signFailed)
    /\ UNCHANGED <<nextSalt, req, args, local, after, route>>
    /\ UNCHANGED <<jwtVars, mw>>

\* POST /sign-in: validate, then call authenticateUser, which issues its lookup
Signin(p) ==
    /\ pc[p] = "idle"
    /\ \E body \in SigninBodies :
        /\ req' = [req EXCEPT ![p] = body]
        /\ route' = [route EXCEPT ![p] = "/sign-in"]
        /\ after' = [after EXCEPT ![p] = Succeeded]
        /\ IF signinSchema(body).success
           THEN /\ args' = [args EXCEPT ![p] = signinSchema(body).data]
                /\ pc' = [pc EXCEPT ![p] = "authenticateUser.select"]
                /\ UNCHANGED <<resp, cause>>
           ELSE /\ pc' = [pc EXCEPT ![p] = "done"]
                /\ resp' = [resp EXCEPT ![p] = ValidationResponse]
                /\ cause' = [cause EXCEPT ![p] = "invalid"]
                /\ UNCHANGED args
    /\ UNCHANGED <<users, nextId, nextSalt, local, ret, log, jar>>
    /\ UNCHANGED <<jwtVars, mw>>

AuthSelect_autoCreate(p) ==
    /\ pc[p] = "authenticateUser.select"
    /\ \E failed \in BOOLEAN :
        IF failed
        THEN /\ EndSignin(p, AuthCatch(StoreErrorMsg), "store_failure", FALSE)
             /\ UNCHANGED <<local, users, nextId>>
        ELSE IF SelectByEmail(users, args[p].email) = {}
             THEN /\ EndSignin(p, AuthNoUser, "no_user", FALSE)
                  /\ users' = users \cup
                         {InsertedRow([name |-> <<>>, email |-> args[p].email,
                                       password |-> <<>>, role |-> "user"],
                                      nextId, clock)}
                  /\ nextId' = nextId + 1
                  /\ UNCHANGED local
             ELSE \E user \in SelectByEmail(users, args[p].email) :
                  /\ local' = [local EXCEPT ![p].user = user]
                  /\ pc' = [pc EXCEPT ![p] = "authenticateUser.compare"]
                  /\ UNCHANGED <<ret, resp, cause, log, jar, users, nextId>>
    /\ UNCHANGED <<nextSalt, req, args, after, route>>
    /\ UNCHANGED <<jwtVars, mw>>

\* authenticateUser: the lookup is answered
AuthSelect(p) ==
    /\ pc[p] = "authenticateUser.select"
    /\ \E failed \in BOOLEAN :
        IF failed
        THEN /\ EndSignin(p, AuthCatch(StoreErrorMsg), "store_failure", FALSE)
             /\ UNCHANGED local
        ELSE IF SelectByEmail(users, args[p].email) = {}
             THEN /\ EndSignin(p, AuthNoUser, "no_user", FALSE)
                  /\ UNCHANGED local
             ELSE \E user \in SelectByEmail(users, args[p].email) :
                  /\ local' = [local EXCEPT ![p].user = user]
                  /\ pc' = [pc EXCEPT ![p] = "authenticateUser.compare"]
                  /\ UNCHANGED <<ret, resp, cause, log, jar>>
    /\ UNCHANGED <<users, nextId, nextSalt, req, args, after, route>>
    /\ UNCHANGED <<jwtVars, mw>>

\* authenticateUser: comparePassword settles
AuthCompare(p) ==
    /\ pc[p] = "authenticateUser.compare"
    /\ \E signFailed \in BOOLEAN :
          EndSignin(p, AuthCheck(local[p].user, args[p]),
                    IF AuthCheck(local[p].user, args[p]).out.ok
                    THEN "authenticated" ELSE "mismatch", signFailed)
    /\ UNCHANGED <<users, nextId, nextSalt, req, args, local, after, route>>
    /\ UNCHANGED <<jwtVars, mw>>

Next ==
    \E p \in Procs :
        \/ Signup(p)
        \/ CreateUserSelect(p)
        \/ CreateUserHash(p)
        \/ CreateUserInsert(p)
        \/ Signin(p)
        \/ AuthSelect(p)
        \/ AuthCompare(p)

Spec == Init /\ [][Next]_vars

\* the store answers every lookup and insert, bcrypt settles every call, and
\* the event loop runs the continuation of every settled await
Fairness ==
    \A p \in Procs :
        /\ WF_vars(CreateUserSelect(p))
        /\ WF_vars(CreateUserHash(p))
        /\ WF_vars(CreateUserInsert(p))
        /\ WF_vars(AuthSelect(p))
        /\ WF_vars(AuthCompare(p))

SpecFair == Init /\ [][Next]_vars /\ Fairness

-----------------------------------------------------------------------------
(* The token issuer on its own: tokens are signed, time passes, a client   *)
(* presents tokens it was given, tokens it altered and tokens signed with  *)
(* a key of its own, and the server verifies what is presented.            *)

MaxTokens == 2

ClaimSets ==
    { [id |-> 1, email |-> FooLower, role |-> "user"],
      [id |-> 2, email |-> Bar, role |-> "admin"] }

\* how far the clock moves in one step, in seconds
ClockSteps == {1, ExpiresInSeconds - 1}

Tokens(set) == {i.token : i \in set}

\* jwttoken.sign(claims) is called and the token is handed to the client
JwtSign ==
    /\ Cardinality(wire) < MaxTokens
    /\ \E c \in ClaimSets, failed \in BOOLEAN :
        LET r == jwttoken_sign(c, secret, clock, failed)
        IN  /\ log' = log \cup r.events
            /\ IF r.out.ok
               THEN /\ issued' = issued \cup {[claims |-> c, at |-> clock,
                                                token |-> r.out.value]}
                    /\ wire' = wire \cup {r.out.value}
               ELSE UNCHANGED <<issued, wire>>
    /\ UNCHANGED <<clock, ticks, secret, verdict>>
    /\ UNCHANGED <<svcVars, webVars, mw>>

\* the client rewrites the claims of a token, keeping its signature
JwtAlterClaims ==
    /\ Cardinality(wire) < MaxTokens
    /\ \E t \in wire, c \in ClaimSets :
        /\ TokenClaims(t.payload) # c
        /\ wire' = wire \cup {[t EXCEPT !.payload.id = c.id,
                                        !.payload.email = c.email,
                                        !.payload.role = c.role]}
    /\ UNCHANGED <<clock, ticks, secret, issued, verdict, log>>
    /\ UNCHANGED <<svcVars, webVars, mw>>

\* the client pushes the expiry of a token back, keeping its signature
JwtExtendExpiry ==
    /\ Cardinality(wire) < MaxTokens
    /\ \E t \in wire :
        wire' = wire \cup {[t EXCEPT !.payload.exp = @ + ExpiresInSeconds]}
    /\ UNCHANGED <<clock, ticks, secret, issued, verdict, log>>
    /\ UNCHANGED <<svcVars, webVars, mw>>

\* the client signs claims of its choice with a key that is not the server's
JwtForge ==
    /\ Cardinality(wire) < MaxTokens
    /\ \E c \in ClaimSets : wire' = wire \cup {jwtSign(c, OtherSecret, clock)}
    /\ UNCHANGED <<clock, ticks, secret, issued, verdict, log>>
    /\ UNCHANGED <<svcVars, webVars, mw>>

\* time passes
Tick ==
    /\ ticks < MaxTicks
    /\ \E d \in ClockSteps : clock' = clock + d
    /\ ticks' = ticks + 1
    /\ UNCHANGED <<secret, issued, wire, verdict, log>>
    /\ UNCHANGED <<svcVars, webVars, mw>>

\* jwttoken.verify(token) is called on a presented token
JwtVerify ==
    /\ \E t \in wire :
        LET r == jwttoken_verify(t, secret, clock)
        IN  /\ verdict' = [token |-> t, at |-> clock, out |-> r.out]
            /\ log' = log \cup r.events
    /\ UNCHANGED <<clock, ticks, secret, issued, wire>>
    /\ UNCHANGED <<svcVars, webVars, mw>>

NextJwt ==
    \/ JwtSign
    \/ JwtAlterClaims
    \/ JwtExtendExpiry
    \/ JwtForge
    \/ Tick
    \/ JwtVerify

SpecJwt == Init /\ [][NextJwt]_vars

-----------------------------------------------------------------------------
(* The gate in front of the routes: each request enters securityMiddleware, *)
(* which awaits aj.protect and then answers or calls next().                *)

\* request p enters securityMiddleware, which calls aj.protect(req)
MwEnter(p) ==
    /\ mw[p].pc = "idle"
    /\ mw' = [mw EXCEPT ![p].pc = "protect"]
    /\ UNCHANGED <<svcVars, jwtVars, webVars, log>>

\* aj.protect(req) settles and the middleware runs to its end
MwDecide(p) ==
    /\ mw[p].pc = "protect"
    /\ \E decision \in Decisions :
        LET run == securityMiddleware(decision)
        IN  /\ mw' = [mw EXCEPT ![p] = [pc |-> "done", decision |-> decision,
                                         responses |-> run.responses,
                                         nextCalls |-> run.nextCalls]]
            /\ log' = log \cup run.events
    /\ UNCHANGED <<svcVars, jwtVars, webVars>>

NextMw == \E p \in Procs : MwEnter(p) \/ MwDecide(p)

SpecMw == Init /\ [][NextMw]_vars

-----------------------------------------------------------------------------
(* Sessions: requests are served while time passes, clients sign out, and  *)
(* the tokens the controllers handed out are presented again.              *)

\* POST /sign-out by the client of request p: the token cookie is cleared
\* and the answer is 200; nothing on the server changes
Signout(p) ==
    /\ pc[p] = "done"
    /\ jar[p] # NoToken
    /\ jar' = [jar EXCEPT ![p] = NoToken]
    /\ UNCHANGED <<svcVars, jwtVars, log, route, mw>>

\* the token handed out by request p is presented and jwttoken.verify runs
SessionVerify(p) ==
    /\ resp[p].token # NoToken
    /\ LET r == jwttoken_verify(resp[p].token, secret, clock)
       IN  /\ verdict' = [token |-> resp[p].token, at |-> clock, out |-> r.out]
           /\ log' = log \cup r.events
    /\ UNCHANGED <<clock, ticks, secret, issued, wire>>
    /\ UNCHANGED <<svcVars, webVars, mw>>

NextSession ==
    \/ Next
    \/ Tick
    \/ \E p \in Procs : Signout(p)
    \/ \E p \in Procs : SessionVerify(p)

SpecSession == Init /\ [][NextSession]_vars

-----------------------------------------------------------------------------
(* Properties of the service: checked under Spec *)

SignupCauses == {"exists", "hash_failure", "unique_violation", "created"}

\* the email of a request body as the validators normalize it
Normalized(email) == Trim(ToLowerCase(email))

\* the row a successful createUser call of request p inserted
RowOf(p) == CHOOSE r \in users : r.id = ret[p].value.id

\* the validated sign-in arguments of the model's sign-in bodies
SigninArgs == {signinSchema(b).data : b \in {x \in SigninBodies : signinSchema(x).success}}

Registered(email) == \E r \in users : r.email = email

\* C1: in every reachable state, whatever the interleaving of createUser
\* calls, no two rows of the users table have the same email.
C1_EmailUnique ==
    \A r1, r2 \in users : r1.email = r2.email => r1 = r2

\* two calls for one email both passed the lookup and both reached the
\* insert: one created the row, the other was rejected by the constraint
C1_Witness ==
    \E p, q \in Procs :
        /\ cause[p] = "created" /\ cause[q] = "unique_violation"
        /\ args[p].email = args[q].email

\* C2: a createUser call whose insert is rejected by the uniqueness
\* constraint fails with the "already exists" error of the pre-check, not
\* with the generic "User creation failed" error.
C2_LateViolationIsAlreadyExists ==
    \A p \in Procs :
        cause[p] = "unique_violation" =>
            /\ ret[p] = Throw(AlreadyExistsMsg)
            /\ resp[p].status = 409

\* C3: a signup that starts after a signup with the same normalized email
\* has succeeded, and whose store requests are answered, fails with the
\* "already exists" conflict, and the table holds one row for that email.
C3_SecondSignupConflicts ==
    \A p, q \in Procs :
        ( /\ p \in after[q]
          /\ cause[p] = "created"
          /\ pc[q] = "done" /\ cause[q] \in SignupCauses
          /\ Normalized(req[p].email) = Normalized(req[q].email) )
        => /\ ret[q] = Throw(AlreadyExistsMsg)
           /\ resp[q].status = 409
           /\ Cardinality({r \in users :
                              Normalized(r.email) = Normalized(req[q].email)}) = 1

\* 'F@x.io' signed up, then 'f@x.io' was refused as a conflict
C3_Witness ==
    \E p, q \in Procs :
        /\ p \in after[q] /\ cause[p] = "created" /\ cause[q] = "exists"
        /\ req[p].email = FooUpper /\ req[q].email = FooLower

\* C4: for every state of the table, authenticateUser with a registered
\* email and a wrong password throws the same error as authenticateUser with
\* an unregistered email; and the calls that ended either way threw it.
C4_NoExistenceOracle ==
    /\ \A a1, a2 \in SigninArgs :
         \A o1 \in authenticateUser(users, a1), o2 \in authenticateUser(users, a2) :
            (Registered(a1.email) /\ ~o1.out.ok /\ ~Registered(a2.email))
                => o1.out = o2.out
    /\ \A p \in Procs, a \in SigninArgs :
         \A o \in authenticateUser(users, a) :
            /\ (cause[p] = "mismatch" /\ ~Registered(a.email)) => ret[p] = o.out
            /\ (cause[p] = "no_user" /\ Registered(a.email) /\ ~o.out.ok)
                  => ret[p] = o.out

\* a sign-in with a wrong password has failed while another email of the
\* model is still unregistered
C4_Witness ==
    /\ \E p \in Procs : cause[p] = "mismatch" /\ resp[p].status = 401
    /\ \E a \in SigninArgs : ~Registered(a.email)

C6_PasswordNeverStoredOrLogged ==
    /\ \A r \in users : IsDigest(r.password)
    /\ \A p \in Procs :
         cause[p] = "created" =>
            /\ RowOf(p).password # req[p].password
            /\ \E salt \in 1..(nextSalt - 1) :
                 RowOf(p).password = BcryptDigest(req[p].password, salt, SaltRounds)
    /\ \A ev \in log, p \in Procs :
         Has(req[p], "password") => ~Contains(EventText(ev), req[p].password)

\* a row was stored, and both the success and an error path have logged
C6_Witness ==
    /\ \E p \in Procs : cause[p] = "created" /\ RowOf(p).password[3] = Blowfish(req[p].password)
    /\ \E ev \in log : ev.level = "info"
    /\ \E ev \in log : ev.level = "error"

ProjectionColumns == {"id", "name", "email", "role", "created_at"}

\* C7: a successful createUser returns the id, name, email, role and
\* created_at of the row it inserted and nothing else; the digest is in the
\* row and not in the returned value.
C7_CreateUserReturnsProjection ==
    \A p \in Procs :
        cause[p] = "created" =>
            /\ DOMAIN ret[p].value = ProjectionColumns
            /\ \A f \in ProjectionColumns : ret[p].value[f] = RowOf(p)[f]
            /\ IsDigest(RowOf(p).password)

\* a createUser call returned a row it inserted with role admin
C7_Witness ==
    \E p \in Procs :
        cause[p] = "created" /\ ret[p].ok /\ ret[p].value.role = "admin"

\* C8: a successful authenticateUser returns the identity projection of the
\* matched row: the returned value has no password column.
C8_SigninReturnsProjection ==
    \A p \in Procs :
        cause[p] = "authenticated" =>
            /\ ret[p].ok
            /\ ~Has(ret[p].value, "password")

-----------------------------------------------------------------------------
(* Properties of the token issuer: checked under SpecJwt *)

SignatureValid(t) == t.signature = Hmac(secret, t.payload)
Expired(t) == clock >= t.payload.exp

\* C9: jwttoken.verify throws the same error, 'Invalid or expired JWT', for
\* a correctly signed token past its expiry and for a token whose signature
\* does not match; only the logged event tells the two apart.
C9_ExpiredAndForgedAlike ==
    \A t1, t2 \in wire :
        (SignatureValid(t1) /\ Expired(t1) /\ ~SignatureValid(t2)) =>
            /\ jwttoken_verify(t1, secret, clock).out = Throw(InvalidJwtMsg)
            /\ jwttoken_verify(t2, secret, clock).out
                  = jwttoken_verify(t1, secret, clock).out
            /\ jwttoken_verify(t1, secret, clock).events
                  # jwttoken_verify(t2, secret, clock).events

\* an expired token and a token with a bad signature are both presented,
\* and the last verify call rejected one of them
C9_Witness ==
    /\ Has(verdict, "token")
    /\ ~verdict.out.ok
    /\ \E t1, t2 \in wire :
        /\ SignatureValid(t1) /\ Expired(t1) /\ ~SignatureValid(t2)
        /\ verdict.token \in {t1, t2} /\ verdict.at = clock

\* verify returns claims c for presented token t at the current time
VerifiesTo(t, c) ==
    /\ jwttoken_verify(t, secret, clock).out.ok
    /\ TokenClaims(jwttoken_verify(t, secret, clock).out.value) = c

\* C10 as stated: verify returns c exactly when the token is one that
\* jwttoken.sign(c) produced, unmodified, and the time is not later than the
\* issue time plus one day.
C10_ValidThroughOneDay ==
    \A t \in wire, c \in ClaimSets :
        VerifiesTo(t, c) <=>
            \E i \in issued :
                /\ i.token = t /\ i.claims = c
                /\ clock <= i.at + ExpiresInSeconds

\* C10 as amended: verify returns c exactly when the token is one that
\* jwttoken.sign(c) produced, unmodified, and the time, in whole seconds, is
\* earlier than the issue time plus one day; altered claims, a later expiry
\* and a signature under another key are always rejected.
C10_ValidBeforeOneDay ==
    \A t \in wire, c \in ClaimSets :
        VerifiesTo(t, c) <=>
            \E i \in issued :
                /\ i.token = t /\ i.claims = c
                /\ clock < i.at + ExpiresInSeconds

\* a token was accepted in the last second of its lifetime while an altered
\* or forged token is also on the wire
C10_Witness ==
    /\ Has(verdict, "token")
    /\ verdict.out.ok
    /\ \E i \in issued :
        i.token = verdict.token /\ verdict.at = i.at + ExpiresInSeconds - 1
    /\ wire \ Tokens(issued) # {}


\* the error that leaves the write path of signup request p: the one
\* createUser threw, or else the one the controller's jwttoken.sign threw
Escaped(p) == IF ret[p].ok THEN resp[p].error ELSE ret[p].message

CreationFailedPrefix == "User creation failed: "

\* C12: of a signup that passed validation, the error that leaves the write
\* path is the already-exists error, unwrapped, when the lookup found the
\* email, and in every other failure (hashing, insertion, token signing) a
\* text that starts with 'User creation failed: '.
C12_FailuresWrapped ==
    \A p \in Procs :
        (route[p] = "/sign-up" /\ pc[p] = "done" /\ cause[p] # "invalid") =>
            /\ cause[p] = "exists" => Escaped(p) = AlreadyExistsMsg
            /\ cause[p] \notin {"exists", "created"} =>
                    Head(Escaped(p)) = CreationFailedPrefix

\* the signup requests whose createUser call inserted a row
Inserted == {p \in Procs : route[p] = "/sign-up" /\ pc[p] = "done" /\ ret[p].ok}

\* C13: every stored row has role user or admin and was inserted by a signup
\* whose payload carried that role, or carried none when the role is user.
C13_RoleFromPayload ==
    /\ \A r \in users :
          /\ r.role \in {"user", "admin"}
          /\ \E p \in Inserted :
                /\ ret[p].value.id = r.id
                /\ r.role = IF "role" \in DOMAIN req[p] THEN req[p].role ELSE "user"
          /\ r.role = "admin" =>
                \A p \in Inserted :
                    ret[p].value.id = r.id =>
                        "role" \in DOMAIN req[p] /\ req[p].role = "admin"
    /\ \A p \in Inserted : \E r \in users : r.id = ret[p].value.id

\* a signup without a role stored a row with role user, and a signup whose
\* only fault is a role outside the enum was refused
C13_Witness ==
    /\ \E p \in Inserted : "role" \notin DOMAIN req[p] /\ RowOf(p).role = "user"
    /\ \E p \in Procs :
          /\ cause[p] = "invalid"
          /\ "role" \in DOMAIN req[p]
          /\ req[p].role \notin Roles
          /\ signupSchema([req[p] EXCEPT !.role = "admin"]).success

\* the signup requests whose payload omits name and is valid otherwise
Nameless ==
    {p \in Procs : /\ route[p] = "/sign-up"
                   /\ "name" \notin DOMAIN req[p]
                   /\ SignupEmailOk(req[p]) /\ SignupPasswordOk(req[p])
                   /\ RoleOk(req[p])}

\* C14 as claimed: a signup payload that omits name and carries a valid
\* email and password passes validation and proceeds to the lookup.
C14_NameOptional ==
    \A p \in Nameless : cause[p] # "invalid"

\* C14: a signup payload that omits name is refused by validation, whatever
\* its other fields: the answer is 400, createUser is not called and the
\* table is not consulted; the same payload with a name passes validation.
C14_NameRequired ==
    \A p \in Nameless :
        /\ pc[p] = "done"
        /\ cause[p] = "invalid"
        /\ resp[p] = ValidationResponse
        /\ ret[p] = NotCalled
        /\ ~signupSchema(req[p]).success
        /\ signupSchema([f \in DOMAIN req[p] \cup {"name"} |->
                           IF f = "name" THEN <<"A">> ELSE req[p][f]]).success

\* a payload without name, with a valid email and password, was answered 400
C14_Witness ==
    \E p \in Nameless : resp[p].status = 400 /\ req[p].email = Bar

\* the requests whose hashPassword call has returned a digest
Hashed == {p \in Procs : local[p].password_hash # <<>>}

\* C15: two hashPassword calls on the same password return digests that
\* differ, and comparePassword of that password with either digest is true
\* (and false for another password).
C15_SaltedHashes ==
    \A p \in Hashed : \A q \in Hashed \ {p} :
        args[p].password = args[q].password =>
            /\ local[p].password_hash # local[q].password_hash
            /\ comparePassword(args[p].password, local[p].password_hash).out.value
            /\ comparePassword(args[p].password, local[q].password_hash).out.value
            /\ ~comparePassword(Wrong, local[p].password_hash).out.value

\* two signups with one password and different emails both stored a row,
\* and the stored digests differ
C15_Witness ==
    \E p \in Hashed : \E q \in Hashed \ {p} :
        /\ args[p].password = args[q].password
        /\ cause[p] = "created" /\ cause[q] = "created"
        /\ RowOf(p).password # RowOf(q).password
        /\ RowOf(p).password = local[p].password_hash

\* request p's service call settles in this step
Settles(p) == pc[p] \notin {"idle", "done"} /\ pc'[p] = "done"

\* C16: a step changes the users table only when a createUser call returns
\* its row, and then the table gains exactly that row and keeps every other
\* row as it was; a createUser call that throws and every step of an
\* authenticateUser call leave the table as it is.
C16_StoreFrame ==
    [][ /\ users' # users =>
             \E p \in Procs :
                /\ route[p] = "/sign-up" /\ Settles(p) /\ ret'[p].ok
                /\ \E row \in users' \ users :
                      /\ users' = users \cup {row}
                      /\ Returning(row) = ret'[p].value
                      /\ \A r \in users : r.id # row.id
        /\ \A p \in Procs :
             (route[p] = "/sign-up" /\ Settles(p) /\ ~ret'[p].ok) => users' = users
        /\ \A p \in Procs :
             (route'[p] = "/sign-in" /\ pc'[p] # pc[p]) => users' = users
      ]_vars

\* one signup stored its row, and a sign-in for that email has completed
\* with the table holding that row only
C16_Witness ==
    \E p \in Procs : \E q \in Procs \ {p} :
        /\ cause[p] = "created"
        /\ route[q] = "/sign-in" /\ cause[q] \in {"authenticated", "mismatch"}
        /\ users = {RowOf(p)}

\* request p's createUser or authenticateUser call is in progress
InFlight(p) == pc[p] \notin {"idle", "done"}

\* C17: under SpecFair, every createUser and authenticateUser call that has
\* started eventually completes, with a result or with an error, whatever
\* other calls are in progress.
C17_CallsComplete ==
    \A p \in Procs :
        InFlight(p) ~> (pc[p] = "done" /\ (ret[p].ok \/ ret[p].message # <<>>)
                                      /\ ret[p] # NotCalled)

\* a sign-in that started before any signup had succeeded completed as
\* authenticated: it ran while the signup that created its user ran
C17_Witness ==
    \E p \in Procs : \E q \in Procs \ {p} :
        /\ route[p] = "/sign-up" /\ pc[p] = "done" /\ ret[p].ok
        /\ route[q] = "/sign-in" /\ pc[q] = "done" /\ ret[q].ok
        /\ after[q] = {}

-----------------------------------------------------------------------------
(* Properties of securityMiddleware: checked under SpecMw *)

MwDone == {p \in Procs : mw[p].pc = "done"}

\* the one response of a run that sent exactly one
Sent(p) == mw[p].responses[1]

\* C18: a run of securityMiddleware ends either with exactly one response
\* and no call of next(), or with exactly one call of next() and no
\* response: 500 when aj.protect threw; otherwise 403 (bot) when the
\* decision is denied for a bot, 403 (policy) when denied by shield, 429
\* when denied for rate limit; and next() in every other case.
C18_ExactlyOneOutcome ==
    \A p \in MwDone :
        LET d == mw[p].decision
            answered == Len(mw[p].responses) = 1 /\ mw[p].nextCalls = 0
            passed == Len(mw[p].responses) = 0 /\ mw[p].nextCalls = 1
        IN  /\ answered \/ passed
            /\ d.threw => answered /\ Sent(p).status = 500
            /\ (~d.threw /\ d.denied /\ d.reason = "BOT") =>
                   /\ answered /\ Sent(p).status = 403
                   /\ Sent(p).message = "Bot traffic is not allowed"
            /\ (~d.threw /\ d.denied /\ d.reason = "SHIELD") =>
                   /\ answered /\ Sent(p).status = 403
                   /\ Sent(p).message = "Request Blocked BY SECURITY POLICY"
            /\ (~d.threw /\ d.denied /\ d.reason = "RATE_LIMIT") =>
                   answered /\ Sent(p).status = 429
            /\ (~d.threw /\ ~(d.denied /\ d.reason \in {"BOT", "SHIELD", "RATE_LIMIT"}))
                   => passed

\* one request was refused for rate limit with 429 while another, whose
\* decision allows it although it names a bot, was passed to next()
C18_Witness ==
    \E p \in MwDone : \E q \in MwDone \ {p} :
        /\ mw[p].decision.denied /\ mw[p].decision.reason = "RATE_LIMIT"
        /\ Sent(p).status = 429 /\ mw[p].nextCalls = 0
        /\ ~mw[q].decision.threw /\ ~mw[q].decision.denied
        /\ mw[q].decision.reason = "BOT"
        /\ mw[q].nextCalls = 1 /\ mw[q].responses = <<>>

\* C19: a request whose decision is denied, for whatever reason, is never
\* passed to next().
C19_DeniedNeverPasses ==
    \A p \in MwDone :
        (~mw[p].decision.threw /\ mw[p].decision.denied) => mw[p].nextCalls = 0

-----------------------------------------------------------------------------
(* Properties of sessions: checked under SpecSession *)

\* the tokens the controllers have handed out
HandedOut == {resp[p].token : p \in Procs} \ {NoToken}

\* C11: a token a controller handed out verifies to its own claims at every
\* moment before its expiry, whatever requests were served and whatever
\* cookies were cleared since it was issued; and every verification that
\* ran on such a token before its expiry succeeded.
C11_NoRevocation ==
    /\ \A t \in HandedOut :
          clock < t.payload.exp =>
              jwttoken_verify(t, secret, clock).out = Return(t.payload)
    /\ (verdict # NotCalled /\ verdict.token \in HandedOut
                            /\ verdict.at < verdict.token.payload.exp)
          => verdict.out = Return(verdict.token.payload)

\* a token was handed out, a later signup created a user, the token's owner
\* signed out, and the token was then verified, shortly before its expiry,
\* with success
C11_Witness ==
    \E p \in Procs : \E q \in Procs \ {p} :
        /\ resp[p].token # NoToken
        /\ jar[p] = NoToken
        /\ cause[q] = "created"
        /\ RowOf(q).created_at > resp[p].token.payload.iat
        /\ verdict # NotCalled
        /\ verdict.token = resp[p].token
        /\ verdict.at >= RowOf(q).created_at
        /\ verdict.at = resp[p].token.payload.exp - 1
        /\ verdict.out.ok

====
